---- MODULE Spec2Model ----
(***************************************************************************)
(* yt2spotify: PlaylistConverter.convert and the two catalogue clients it  *)
(* drives (YouTubeClient.get_playlist, SpotifyClient.search_track and     *)
(* SpotifyClient.create_playlist), as a state machine.  One run of        *)
(* convert is followed from the call to its return or raise; every call   *)
(* into a third-party library (ytmusicapi, spotipy) is one step whose     *)
(* outcome the environment chooses.  Spec follows a direct call of        *)
(* convert, SpecBatch a long playlist from create_playlist on, SpecMain   *)
(* one run of the command main of main.py around convert.                 *)
(***************************************************************************)
EXTENDS Integers, Sequences, FiniteSets, TLC

VARIABLES
    pc,                   \* position of the run inside convert / create_playlist
    youtube_url,          \* convert's arguments
    playlist_name,
    playlist_description,
    playlist,             \* the Playlist returned by YouTubeClient.get_playlist
    i,                    \* _convert_songs: 1-based position of the next song
    spotify_ids,          \* _convert_songs: identifiers found so far
    failed_songs,         \* _convert_songs: songs not found so far
    final_name,           \* convert: name handed to create_playlist
    final_description,    \* convert: description handed to create_playlist
    valid_track_ids,      \* create_playlist: the filtered identifiers
    offset,               \* create_playlist: the batch loop's index (0-based)
    sp_playlist,          \* the playlist as it exists on Spotify
    calls,                \* every collaborator / library call issued, in order
    logs,                 \* every log record emitted, in order
    status,               \* "idle" | "running" | "returned" | "raised"
    result,               \* the ConversionResult returned
    exc,                  \* the exception convert raised
    credentials,          \* config.py: which client's credentials are usable
    raw_tracks,           \* the track listing ytmusic.get_playlist returned
    main_pc,              \* position of the run inside main ("none": no main)
    echoed,               \* main: what click.echo printed, in order
    exit_code             \* main: the process's exit status, None while running

vars == <<pc, youtube_url, playlist_name, playlist_description, playlist, i,
          spotify_ids, failed_songs, final_name, final_description,
          valid_track_ids, offset, sp_playlist, calls, logs, status, result, exc,
          credentials, raw_tracks, main_pc, echoed, exit_code>>

-----------------------------------------------------------------------------
(* Bounds of the model *)

\* most entries in the raw track listing the source platform returns
MaxTracks == 2

\* most identifiers handed to create_playlist in SpecBatch
MaxIds == 250

-----------------------------------------------------------------------------
(* Python values *)

\* Python's None where a string is expected (no modelled string is "None")
None == "None"

\* truthiness of an Optional[str]: None and "" are falsy
Truthy(s) == s # None /\ s # ""

Min(a, b) == IF a < b THEN a ELSE b

\* dict.get(key, default) on a dict modelled as a record
Get(d, key, default) == IF key \in DOMAIN d THEN d[key] ELSE default

Exc(type, msg) == [type |-> type, msg |-> msg]

NoExc == Exc("", "")

Log(logger, level, msg) == [logger |-> logger, level |-> level, msg |-> msg]

Call(op, arg, ret) == [op |-> op, arg |-> arg, ret |-> ret]

\* what a library call can raise: spotipy's own SpotifyException, a runtime
\* error that is no ValueError (requests' ConnectionError), or a ValueError
\* (the JSONDecodeError of a token response that is not JSON)
LibraryErrors == {"SpotifyException", "ConnectionError", "ValueError"}

-----------------------------------------------------------------------------
(* entities.py *)

\* A Song; oid stands for the identity of the Python object (the index of the
\* raw track it was built from).
Song(oid, title, artists, album, duration) ==
    [oid |-> oid, title |-> title, artists |-> artists, album |-> album,
     duration |-> duration]

Playlist(name, description, songs) ==
    [name |-> name, description |-> description, songs |-> songs]

NoPlaylist == Playlist(None, None, <<>>)

-----------------------------------------------------------------------------
(* playlist_converter.py: ConversionResult *)

ConversionResult(playlist_url, failed, total_songs, converted_songs) ==
    [playlist_url |-> playlist_url, failed_songs |-> failed,
     total_songs |-> total_songs, converted_songs |-> converted_songs]

NoResult == ConversionResult(None, <<>>, 0, 0)

\* A float as the exact fraction num/den; zde: the evaluation raised
\* ZeroDivisionError.
Rate(num, den) == [zde |-> FALSE, num |-> num, den |-> den]

ZeroDivisionError == [zde |-> TRUE, num |-> 0, den |-> 1]

\* equality of two fractions
RateEq(a, b) == a.zde = b.zde /\ a.num * b.den = b.num * a.den

\* ConversionResult.success_rate: (total_songs / converted_songs) * 100
success_rate(r) ==
    IF r.total_songs = 0 THEN Rate(0, 1)
    ELSE IF r.converted_songs = 0 THEN ZeroDivisionError
    ELSE Rate(r.total_songs * 100, r.converted_songs)

-----------------------------------------------------------------------------
(* youtube_client.py *)

\* A URL string is its sequence of tokens; a non-string argument has isStr FALSE.
Str(toks) == [isStr |-> TRUE, toks |-> toks]

NoneUrl == [isStr |-> FALSE, toks |-> <<>>]

EmptyUrl == Str(<<>>)

\* no query at all
BareUrl == Str(<<"https://", "music.", "youtube.com", "/playlist">>)

\* the usual playlist URL: ...?list=PL1
ListUrl ==
    Str(<<"https://", "music.", "youtube.com", "/playlist", "?", "list", "=", "PL1">>)

\* the URL of main.py's usage example, backslashes kept: ...playlist\?list\=PL1
BackslashUrl ==
    Str(<<"https://", "music.", "youtube.com", "/playlist\\", "?", "list\\", "=",
          "PL1">>)

Urls == {NoneUrl, EmptyUrl, BareUrl, ListUrl, BackslashUrl}

\* not url or not isinstance(url, str)
BadUrlArgument(url) == ~url.isStr \/ url.toks = <<>>

RECURSIVE IndexOf(_, _, _)
\* first position >= k of token t in s, Len(s) + 1 when there is none
IndexOf(s, t, k) ==
    IF k > Len(s) THEN Len(s) + 1
    ELSE IF s[k] = t THEN k
    ELSE IndexOf(s, t, k + 1)

\* urlparse(url).query: what follows the first "?"
UrlQuery(toks) == SubSeq(toks, IndexOf(toks, "?", 1) + 1, Len(toks))

RECURSIVE QsValues(_, _)
\* parse_qs(query).get(key, []): the values of the "&"-separated fields
\* name=value whose name is key; a field with a blank value is dropped
QsValues(q, key) ==
    IF q = <<>> THEN <<>>
    ELSE LET n == IndexOf(q, "&", 1)
             f == SubSeq(q, 1, n - 1)
             rest == SubSeq(q, n + 1, Len(q))
             hit == Len(f) >= 3 /\ f[2] = "=" /\ f[1] = key
         IN (IF hit THEN <<f[3]>> ELSE <<>>) \o QsValues(rest, key)

\* YouTubeClient._extract_playlist_id: query_params.get("list\\", [None])[0]
_extract_playlist_id(url) ==
    LET v == QsValues(UrlQuery(url.toks), "list\\")
    IN IF v = <<>> THEN None ELSE v[1]

\* A raw track of the listing: a dict (d holds its keys), or something that is
\* not a dict (None).
Dict(d) == [isDict |-> TRUE, d |-> d]

NotADict == [isDict |-> FALSE, d |-> [none |-> TRUE]]

TrackWithArtist ==
    Dict([title |-> "a", artists |-> <<Dict([name |-> "x"])>>,
          album |-> [name |-> "al"], duration_seconds |-> 200])

TrackNoArtist == Dict([title |-> "b", artists |-> <<>>])

\* its artists list holds a None: '"name" in artist' raises TypeError
TrackBadArtist == Dict([title |-> "c", artists |-> <<NotADict>>])

RawTrackPool == {TrackWithArtist, TrackNoArtist, TrackBadArtist, NotADict}

\* the comprehension over track["artists"] raises when an entry is not a dict
ArtistsRaise(as) == \E k \in 1..Len(as) : ~as[k].isDict

RECURSIVE ArtistNames(_)
\* [artist.get("name") for artist in artists if "name" in artist]
ArtistNames(as) ==
    IF as = <<>> THEN <<>>
    ELSE (IF "name" \in DOMAIN Head(as).d THEN <<Head(as).d.name>> ELSE <<>>)
         \o ArtistNames(Tail(as))

\* TrackSkipped without the try/except around the translation: only the
\* isinstance test skips a track
TrackSkipped_NonDictOnly(track) == ~track.isDict

\* the body of _process_songs' loop for the track at index k: the track is
\* skipped when it is falsy or no dict, or when building the Song raises
TrackSkipped(track) ==
    \/ ~track.isDict
    \/ ArtistsRaise(Get(track.d, "artists", <<>>))

TrackSong(track, k) ==
    LET album_data == Get(track.d, "album", [none |-> TRUE])
    IN Song(k,
            Get(track.d, "title", "Unknown"),
            ArtistNames(Get(track.d, "artists", <<>>)),
            IF "name" \in DOMAIN album_data THEN album_data.name ELSE "Unknown",
            Get(track.d, "duration_seconds", 0))

RECURSIVE ProcessRange(_, _, _)
\* the songs _process_songs' loop appends for the tracks at lo..hi, in order
\* (the range is halved to keep the evaluation shallow)
ProcessRange(tracks, lo, hi) ==
    IF lo > hi THEN <<>>
    ELSE IF lo = hi
    THEN (IF TrackSkipped(tracks[lo]) THEN <<>> ELSE <<TrackSong(tracks[lo], lo)>>)
    ELSE LET mid == (lo + hi) \div 2
         IN ProcessRange(tracks, lo, mid) \o ProcessRange(tracks, mid + 1, hi)

\* YouTubeClient._process_songs
_process_songs(tracks) == ProcessRange(tracks, 1, Len(tracks))

RECURSIVE ProcessLogs(_, _, _)
\* the log records _process_songs emits: one warning per skipped track
ProcessLogs(tracks, lo, hi) ==
    IF lo > hi THEN <<>>
    ELSE IF lo = hi
    THEN (IF TrackSkipped(tracks[lo])
          THEN <<Log("youtube", "WARNING", "Could not process track")>>
          ELSE <<>>)
    ELSE LET mid == (lo + hi) \div 2
         IN ProcessLogs(tracks, lo, mid) \o ProcessLogs(tracks, mid + 1, hi)

\* title / description of the raw playlist ytmusicapi returns
RawMetaPool ==
    {[title |-> "YT name", description |-> "YT desc"],
     [title |-> "", description |-> None],
     [title |-> "YT name", description |-> None],
     [title |-> "", description |-> "YT desc"],
     [other |-> TRUE]}

RECURSIVE SeqsUpTo(_, _)
\* the sequences over S of length at most n
SeqsUpTo(S, n) ==
    IF n = 0 THEN {<<>>}
    ELSE LET shorter == SeqsUpTo(S, n - 1)
         IN shorter \cup {Append(s, x) : s \in {t \in shorter : Len(t) = n - 1}, x \in S}

\* what ytmusic.get_playlist can do: raise, or return a raw playlist
YtResponses ==
    {[raises |-> TRUE, meta |-> [other |-> TRUE], tracks |-> <<>>]}
    \cup {[raises |-> FALSE, meta |-> m, tracks |-> t] :
             m \in RawMetaPool, t \in SeqsUpTo(RawTrackPool, MaxTracks)}

\* config.py reads the credentials from the environment when it is imported:
\* youtube: YOUTUBE_CLIENT_ID and YOUTUBE_CLIENT_SECRET are set; spotify: the
\* SPOTIFY_* values let SpotifyOAuth authenticate
Credentials == [youtube : BOOLEAN, spotify : BOOLEAN]

\* YouTubeClient._initialize_youtube_client in the environment env = [creds:
\* config holds the OAuth client id and secret, resp: what ytmusicapi
\* answers]: any failure, the missing
\* configuration included, leaves as YoutubeClientError
_initialize_youtube_client(env) ==
    IF ~env.creds
    THEN Exc("YoutubeClientError", "Error initializing Youtube Music client")
    ELSE NoExc

\* get_playlist's handler: its first statement formats {str/e}, which raises
\* TypeError before the isinstance test is reached
GetPlaylistExcept(e) == Exc("TypeError", "unsupported operand type(s) for /")

\* YouTubeClient.get_playlist(url) in environment env:
\* [exc, playlist, calls, logs], and raw_tracks, the listing ytmusicapi
\* returned (line 62's playlist_data["tracks"]), empty when it returned none
get_playlist(url, env) ==
    LET entry == <<Call("yt.get_playlist", url, None)>>
        out(e, p, c, l) ==
            [exc |-> e, playlist |-> p, calls |-> c, logs |-> l,
             raw_tracks |-> IF e = NoExc THEN env.resp.tracks ELSE <<>>]
        playlist_id == _extract_playlist_id(url)
        init == _initialize_youtube_client(env)
        fetch == <<Call("ytmusic.get_playlist", playlist_id,
                        IF env.resp.raises THEN "raise" ELSE "playlist")>>
        processing == <<Log("youtube", "INFO", "Processing URL")>>
        songs == _process_songs(env.resp.tracks)
    IN IF BadUrlArgument(url)
       THEN out(Exc("ValueError", "The URL must be a string no empty"),
                NoPlaylist, entry, <<>>)
       ELSE IF playlist_id = None
       THEN out(GetPlaylistExcept(Exc("ValueError", "It could not extract playlist ID")),
                NoPlaylist, entry, processing)
       ELSE IF init # NoExc
       THEN out(GetPlaylistExcept(init), NoPlaylist, entry, processing)
       ELSE IF env.resp.raises
       THEN out(GetPlaylistExcept(Exc("Exception", "ytmusicapi")),
                NoPlaylist, entry \o fetch, processing)
       ELSE out(NoExc,
                Playlist(Get(env.resp.meta, "title", "Untitled"),
                         Get(env.resp.meta, "description", "Unknown"),
                         songs),
                entry \o fetch,
                processing \o ProcessLogs(env.resp.tracks, 1, Len(env.resp.tracks))
                    \o <<Log("youtube", "INFO", "Playlist processed correctly")>>)

-----------------------------------------------------------------------------
(* spotify_client.py *)

\* the identifier of the destination catalogue's first match for a song: an
\* opaque token, one per source song
TrackId(song) == "sp" \o ToString(song.oid)

\* what sp.search can do for a song: return a first item, return no item, or
\* raise
SearchOutcomes(song) ==
    {[kind |-> "items", val |-> TrackId(song)]}
    \cup {[kind |-> "empty", val |-> None]}
    \cup {[kind |-> "raise", val |-> e] : e \in LibraryErrors}

\* hasattr(song, name): Song's fields are title, artists, album, duration
HasAttr(song, name) == name \in (DOMAIN song \ {"oid"})

\* the query search_track builds
SearchQuery(song) ==
    IF HasAttr(song, "artist") /\ song.artist # <<>>
    THEN <<song.title, " artist:", song.artist>>
    ELSE <<song.title>>

\* SpotifyClient.search_track(song) when sp.search does o:
\* [ret, exc, calls, logs]
search_track(song, o) ==
    LET query == SearchQuery(song)
        call == <<Call("spotify.search_track", song, None),
                  Call("sp.search", query, o)>>
    IN CASE o.kind = "items" ->
              [ret |-> o.val, exc |-> NoExc, calls |-> call, logs |-> <<>>]
         [] o.kind = "empty" ->
              [ret |-> None, exc |-> NoExc, calls |-> call,
               logs |-> <<Log("spotify", "WARNING", "Song not found")>>]
         [] OTHER ->
              [ret |-> None,
               exc |-> IF o.val = "SpotifyException"
                       THEN Exc("SpotifyClientError", "Error searching the song")
                       ELSE Exc(o.val, "sp.search"),
               calls |-> call, logs |-> <<>>]

\* Spotify has a limit of 100 songs per request
batch_size == 100

\* Batch with the slice one short: valid_track_ids[i:i+batch_size-1]
Batch_OneShort(ids, k) == SubSeq(ids, k + 1, Min(k + batch_size - 1, Len(ids)))

\* valid_track_ids[i:i+batch_size]
Batch(ids, k) == SubSeq(ids, k + 1, Min(k + batch_size, Len(ids)))

\* [track_id for track_id in track_ids if track_id is not None]
IsNotNone(t) == t # None

\* create_playlist's except clause: a SpotifyException leaves as
\* SpotifyClientError, anything else as it is
CreatePlaylistExcept(e) ==
    IF e = "SpotifyException"
    THEN Exc("SpotifyClientError", "Error creating the playlist")
    ELSE Exc(e, "spotipy")

NoSpPlaylist == [exists |-> FALSE, name |-> None, description |-> None, items |-> <<>>]

PlaylistUrl == "https://open.spotify.com/playlist/p1"

-----------------------------------------------------------------------------
(* playlist_converter.py: PlaylistConverter *)

\* InvalidUrlArgument without the emptiness test: not isinstance(youtube_url, str)
InvalidUrlArgument_TypeOnly(url) == ~url.isStr

\* not youtube_url or not isinstance(youtube_url, str)
InvalidUrlArgument(url) == ~url.isStr \/ url.toks = <<>>

\* IsEmptyPlaylist testing "playlist.songs is None", which no list satisfies
IsEmptyPlaylist_IsNone(p) == FALSE

\* not playlist.songs
IsEmptyPlaylist(p) == p.songs = <<>>

\* NoMatches testing "spotify_ids is None", which no list satisfies
NoMatches_IsNone(ids) == FALSE

\* not spotify_ids
NoMatches(ids) == ids = <<>>

\* convert's handler: PlaylistConverterError and ValueError are re-raised,
\* anything else is wrapped
ConvertExcept(e) ==
    IF e.type \in {"PlaylistConverterError", "ValueError"} THEN e
    ELSE Exc("PlaylistConverterError", "Unexpected error during conversion")

ConvertErrorLog == <<Log("converter", "ERROR", "Error during conversion")>>

\* ConvertSong whose except clause logs the error and forgets the song
ConvertSong_DropOnError(song, o) ==
    LET r == search_track(song, o)
    IN IF r.exc # NoExc
       THEN [ids |-> <<>>, failed |-> <<>>, exc |-> NoExc, calls |-> r.calls,
             logs |-> <<Log("converter", "ERROR", "Error searching")>>]
       ELSE IF Truthy(r.ret)
       THEN [ids |-> <<r.ret>>, failed |-> <<>>, exc |-> NoExc, calls |-> r.calls,
             logs |-> r.logs]
       ELSE [ids |-> <<>>, failed |-> <<song>>, exc |-> NoExc, calls |-> r.calls,
             logs |-> r.logs]

\* ConvertSong without the try/except around search_track
ConvertSong_Propagate(song, o) ==
    LET r == search_track(song, o)
    IN IF r.exc # NoExc
       THEN [ids |-> <<>>, failed |-> <<>>, exc |-> r.exc, calls |-> r.calls,
             logs |-> r.logs]
       ELSE IF Truthy(r.ret)
       THEN [ids |-> <<r.ret>>, failed |-> <<>>, exc |-> NoExc, calls |-> r.calls,
             logs |-> r.logs]
       ELSE [ids |-> <<>>, failed |-> <<song>>, exc |-> NoExc, calls |-> r.calls,
             logs |-> r.logs]

\* ConvertSong logging a lookup error with logger.warning, like a song that
\* was not found
ConvertSong_SameSeverity(song, o) ==
    LET r == search_track(song, o)
        processing == <<Log("converter", "DEBUG", "Processing song")>>
    IN IF r.exc # NoExc
       THEN [ids |-> <<>>, failed |-> <<song>>, exc |-> NoExc, calls |-> r.calls,
             logs |-> processing \o r.logs
                      \o <<Log("converter", "WARNING", "Error searching")>>]
       ELSE IF Truthy(r.ret)
       THEN [ids |-> <<r.ret>>, failed |-> <<>>, exc |-> NoExc, calls |-> r.calls,
             logs |-> processing \o r.logs
                      \o <<Log("converter", "DEBUG", "Found")>>]
       ELSE [ids |-> <<>>, failed |-> <<song>>, exc |-> NoExc, calls |-> r.calls,
             logs |-> processing \o r.logs
                      \o <<Log("converter", "WARNING", "Not found")>>]

\* ConvertSong calling search_track a second time for a song that was not
\* found
ConvertSong_Retry(song, o) ==
    LET r == search_track(song, o)
    IN IF r.exc # NoExc
       THEN [ids |-> <<>>, failed |-> <<song>>, exc |-> NoExc, calls |-> r.calls,
             logs |-> r.logs]
       ELSE IF Truthy(r.ret)
       THEN [ids |-> <<r.ret>>, failed |-> <<>>, exc |-> NoExc, calls |-> r.calls,
             logs |-> r.logs]
       ELSE [ids |-> <<>>, failed |-> <<song>>, exc |-> NoExc,
             calls |-> r.calls \o r.calls, logs |-> r.logs]

\* one iteration of _convert_songs' loop on song, when sp.search does o:
\* what is appended to spotify_ids, failed_songs, calls and logs, and the
\* exception that leaves the loop body (none: "except Exception" absorbs it)
ConvertSong(song, o) ==
    LET r == search_track(song, o)
        processing == <<Log("converter", "DEBUG", "Processing song")>>
    IN IF r.exc # NoExc
       THEN [ids |-> <<>>, failed |-> <<song>>, exc |-> NoExc, calls |-> r.calls,
             logs |-> processing \o r.logs
                      \o <<Log("converter", "ERROR", "Error searching")>>]
       ELSE IF Truthy(r.ret)
       THEN [ids |-> <<r.ret>>, failed |-> <<>>, exc |-> NoExc, calls |-> r.calls,
             logs |-> processing \o r.logs
                      \o <<Log("converter", "DEBUG", "Found")>>]
       ELSE [ids |-> <<>>, failed |-> <<song>>, exc |-> NoExc, calls |-> r.calls,
             logs |-> processing \o r.logs
                      \o <<Log("converter", "WARNING", "Not found")>>]

\* FinalName with the first two operands swapped:
\* playlist.name or playlist_name or "Playlist from Youtube"
FinalName_SourceFirst(name, p) ==
    IF Truthy(p.name) THEN p.name
    ELSE IF Truthy(name) THEN name
    ELSE "Playlist from Youtube"

\* playlist_name or playlist.name or "Playlist from Youtube"
FinalName(name, p) ==
    IF Truthy(name) THEN name
    ELSE IF Truthy(p.name) THEN p.name
    ELSE "Playlist from Youtube"

\* the fallback description states len(failed_songs)
FallbackDescription(failed) ==
    <<"Playlist converted from Youtube. ", Len(failed), " songs not found.">>

\* playlist_description or playlist.description or f"... {len(failed_songs)} ..."
FinalDescription(description, p, failed) ==
    IF Truthy(description) THEN <<description>>
    ELSE IF Truthy(p.description) THEN <<p.description>>
    ELSE FallbackDescription(failed)

-----------------------------------------------------------------------------
(* The run *)

Init ==
    /\ pc = "idle"
    /\ youtube_url = NoneUrl
    /\ playlist_name = None
    /\ playlist_description = None
    /\ playlist = NoPlaylist
    /\ i = 0
    /\ spotify_ids = <<>>
    /\ failed_songs = <<>>
    /\ final_name = None
    /\ final_description = <<>>
    /\ valid_track_ids = <<>>
    /\ offset = 0
    /\ sp_playlist = NoSpPlaylist
    /\ calls = <<>>
    /\ logs = <<>>
    /\ status = "idle"
    /\ result = NoResult
    /\ exc = NoExc
    /\ credentials \in {c \in Credentials : c.spotify}
    /\ raw_tracks = <<>>
    /\ main_pc = "none"
    /\ echoed = <<>>
    /\ exit_code = None

\* convert raises e from inside its try block: the handler logs and re-raises
Raise(e) ==
    /\ pc' = "done"
    /\ status' = "raised"
    /\ exc' = ConvertExcept(e)
    /\ result' = result

NameOverrides == {None, "", "My name"}

DescriptionOverrides == {None, "My description"}

\* convert(youtube_url, playlist_name, playlist_description) is called:
\* the argument check, then the first log line
ConvertCall(url, name, description) ==
        /\ pc = "idle"
        /\ youtube_url' = url
        /\ playlist_name' = name
        /\ playlist_description' = description
        /\ IF InvalidUrlArgument(url)
           THEN /\ pc' = "done"
                /\ status' = "raised"
                /\ exc' = Exc("ValueError", "Youtube URL must be a non-empty string")
                /\ logs' = logs
           ELSE /\ pc' = "get_playlist"
                /\ status' = "running"
                /\ exc' = exc
                /\ logs' = Append(logs, Log("converter", "INFO", "Obtaining YouTube playlist"))
        /\ UNCHANGED <<playlist, i, spotify_ids, failed_songs, final_name,
                       final_description, valid_track_ids, offset, sp_playlist,
                       calls, result, credentials, raw_tracks>>

\* convert is called on a PlaylistConverter whose two clients exist
Convert ==
    \E url \in Urls, name \in NameOverrides, description \in DescriptionOverrides :
        /\ ConvertCall(url, name, description)
        /\ UNCHANGED <<main_pc, echoed, exit_code>>

\* self.yt.get_playlist(youtube_url), and the test for an empty playlist
GetPlaylist ==
    \E resp \in YtResponses :
        LET env == [creds |-> credentials.youtube, resp |-> resp]
            r == get_playlist(youtube_url, env)
        IN /\ pc = "get_playlist"
           /\ calls' = calls \o r.calls
           /\ playlist' = r.playlist
           /\ raw_tracks' = r.raw_tracks
           /\ IF r.exc # NoExc
              THEN /\ Raise(r.exc)
                   /\ logs' = logs \o r.logs \o ConvertErrorLog
                   /\ i' = i
              ELSE IF IsEmptyPlaylist(r.playlist)
              THEN /\ Raise(Exc("PlaylistConverterError", "Youtube playlist is empty"))
                   /\ logs' = logs \o r.logs \o ConvertErrorLog
                   /\ i' = i
              ELSE /\ pc' = "search"
                   /\ logs' = logs \o r.logs
                                \o <<Log("converter", "INFO", "Found songs in playlist")>>
                   /\ i' = 1
                   /\ UNCHANGED <<status, exc, result>>
           /\ UNCHANGED <<credentials, main_pc, echoed, exit_code>>
           /\ UNCHANGED <<youtube_url, playlist_name, playlist_description,
                          spotify_ids, failed_songs, final_name, final_description,
                          valid_track_ids, offset, sp_playlist>>

\* SearchTrack putting what it found or missed at the front of the lists
\* (insert(0, ...) for append)
SearchTrack_Prepend ==
    \E o \in IF pc = "search" /\ i <= Len(playlist.songs)
              THEN SearchOutcomes(playlist.songs[i]) ELSE {} :
        LET r == ConvertSong(playlist.songs[i], o)
        IN /\ pc = "search"
           /\ i <= Len(playlist.songs)
           /\ spotify_ids' = r.ids \o spotify_ids
           /\ failed_songs' = r.failed \o failed_songs
           /\ calls' = calls \o r.calls
           /\ IF r.exc # NoExc
              THEN /\ Raise(r.exc)
                   /\ logs' = logs \o r.logs \o ConvertErrorLog
                   /\ i' = i
              ELSE /\ logs' = logs \o r.logs
                   /\ i' = i + 1
                   /\ UNCHANGED <<pc, status, result, exc>>
           /\ UNCHANGED <<credentials, main_pc, echoed, exit_code, raw_tracks>>
           /\ UNCHANGED <<youtube_url, playlist_name, playlist_description,
                          playlist, final_name, final_description, valid_track_ids,
                          offset, sp_playlist>>

\* one iteration of _convert_songs' loop
SearchTrack ==
    \E o \in IF pc = "search" /\ i <= Len(playlist.songs)
              THEN SearchOutcomes(playlist.songs[i]) ELSE {} :
        LET r == ConvertSong(playlist.songs[i], o)
        IN /\ pc = "search"
           /\ i <= Len(playlist.songs)
           /\ spotify_ids' = spotify_ids \o r.ids
           /\ failed_songs' = failed_songs \o r.failed
           /\ calls' = calls \o r.calls
           /\ IF r.exc # NoExc
              THEN /\ Raise(r.exc)
                   /\ logs' = logs \o r.logs \o ConvertErrorLog
                   /\ i' = i
              ELSE /\ logs' = logs \o r.logs
                   /\ i' = i + 1
                   /\ UNCHANGED <<pc, status, result, exc>>
           /\ UNCHANGED <<credentials, main_pc, echoed, exit_code, raw_tracks>>
           /\ UNCHANGED <<youtube_url, playlist_name, playlist_description,
                          playlist, final_name, final_description, valid_track_ids,
                          offset, sp_playlist>>

\* _convert_songs returns: the no-match test, the final name and description
ConvertSongsDone ==
    /\ pc = "search"
    /\ i > Len(playlist.songs)
    /\ IF NoMatches(spotify_ids)
       THEN /\ Raise(Exc("PlaylistConverterError", "Could not find any song on Spotify"))
            /\ logs' = logs \o ConvertErrorLog
            /\ UNCHANGED <<final_name, final_description>>
       ELSE /\ pc' = "create_playlist"
            /\ final_name' = FinalName(playlist_name, playlist)
            /\ final_description' =
                   FinalDescription(playlist_description, playlist, failed_songs)
            /\ logs' = Append(logs, Log("converter", "INFO", "Creating Spotify playlist"))
            /\ UNCHANGED <<status, exc, result>>
    /\ UNCHANGED <<credentials, main_pc, echoed, exit_code, raw_tracks>>
    /\ UNCHANGED <<youtube_url, playlist_name, playlist_description, playlist, i,
                   spotify_ids, failed_songs, valid_track_ids, offset, sp_playlist,
                   calls>>

\* create_playlist is entered: the two ValueError tests around the filter
CreatePlaylist ==
    LET valid == SelectSeq(spotify_ids, IsNotNone)
    IN /\ pc = "create_playlist"
       /\ calls' = Append(calls, Call("spotify.create_playlist",
                                      [name |-> final_name,
                                       description |-> final_description,
                                       track_ids |-> spotify_ids], None))
       /\ IF spotify_ids = <<>>
          THEN /\ Raise(Exc("ValueError", "Could not create playlists empty"))
               /\ logs' = logs \o ConvertErrorLog
               /\ valid_track_ids' = valid_track_ids
          ELSE IF valid = <<>>
          THEN /\ Raise(Exc("ValueError", "There are not songs valid to create playlist"))
               /\ logs' = logs \o ConvertErrorLog
               /\ valid_track_ids' = valid_track_ids
          ELSE /\ pc' = "current_user"
               /\ valid_track_ids' = valid
               /\ UNCHANGED <<logs, status, exc, result>>
       /\ UNCHANGED <<credentials, main_pc, echoed, exit_code, raw_tracks>>
       /\ UNCHANGED <<youtube_url, playlist_name, playlist_description, playlist, i,
                      spotify_ids, failed_songs, final_name, final_description,
                      offset, sp_playlist>>

\* a library call inside create_playlist raises e
CreatePlaylistRaises(e) ==
    /\ Raise(CreatePlaylistExcept(e))
    /\ logs' = logs \o ConvertErrorLog

\* self.sp.current_user()["id"]
CurrentUser ==
    \E o \in {"ok"} \cup LibraryErrors :
        /\ pc = "current_user"
        /\ calls' = Append(calls, Call("sp.current_user", None, o))
        /\ IF o = "ok"
           THEN /\ pc' = "user_playlist_create"
                /\ UNCHANGED <<logs, status, exc, result>>
           ELSE CreatePlaylistRaises(o)
        /\ UNCHANGED <<credentials, main_pc, echoed, exit_code, raw_tracks>>
        /\ UNCHANGED <<youtube_url, playlist_name, playlist_description, playlist, i,
                       spotify_ids, failed_songs, final_name, final_description,
                       valid_track_ids, offset, sp_playlist>>

\* self.sp.user_playlist_create(user, name, public=False, description)
UserPlaylistCreate ==
    \E o \in {"ok"} \cup LibraryErrors :
        /\ pc = "user_playlist_create"
        /\ calls' = Append(calls, Call("sp.user_playlist_create",
                                       [name |-> final_name,
                                        description |-> final_description], o))
        /\ IF o = "ok"
           THEN /\ pc' = "add_items"
                /\ offset' = 0
                /\ sp_playlist' = [exists |-> TRUE, name |-> final_name,
                                   description |-> final_description, items |-> <<>>]
                /\ UNCHANGED <<logs, status, exc, result>>
           ELSE /\ CreatePlaylistRaises(o)
                /\ UNCHANGED <<offset, sp_playlist>>
        /\ UNCHANGED <<credentials, main_pc, echoed, exit_code, raw_tracks>>
        /\ UNCHANGED <<youtube_url, playlist_name, playlist_description, playlist, i,
                       spotify_ids, failed_songs, final_name, final_description,
                       valid_track_ids>>

\* one iteration of the batch loop: self.sp.playlist_add_items(id, batch)
PlaylistAddItems ==
    \E o \in {"ok"} \cup LibraryErrors :
        LET batch == Batch(valid_track_ids, offset)
        IN /\ pc = "add_items"
           /\ offset < Len(valid_track_ids)
           /\ calls' = Append(calls, Call("sp.playlist_add_items", batch, o))
           /\ IF o = "ok"
              THEN /\ sp_playlist' = [sp_playlist EXCEPT !.items = @ \o batch]
                   /\ offset' = offset + batch_size
                   /\ UNCHANGED <<pc, logs, status, exc, result>>
              ELSE /\ CreatePlaylistRaises(o)
                   /\ UNCHANGED <<offset, sp_playlist>>
           /\ UNCHANGED <<credentials, main_pc, echoed, exit_code, raw_tracks>>
           /\ UNCHANGED <<youtube_url, playlist_name, playlist_description, playlist,
                          i, spotify_ids, failed_songs, final_name, final_description,
                          valid_track_ids>>

\* ConvertReturn with the return inside the batch loop: create_playlist
\* returns the URL before every batch is attached
ConvertReturn_Early ==
    LET r == ConversionResult(PlaylistUrl, failed_songs, Len(playlist.songs),
                              Len(spotify_ids))
        created == <<Log("spotify", "INFO", "Playlist created succesfully")>>
    IN /\ pc = "add_items"
       /\ IF success_rate(r).zde
          THEN /\ Raise(Exc("ZeroDivisionError", "float division by zero"))
               /\ logs' = logs \o created \o ConvertErrorLog
          ELSE /\ pc' = "done"
               /\ status' = "returned"
               /\ result' = r
               /\ exc' = exc
               /\ logs' = logs \o created
                            \o <<Log("converter", "INFO", "Conversion completed")>>
       /\ UNCHANGED <<credentials, main_pc, echoed, exit_code, raw_tracks>>
       /\ UNCHANGED <<youtube_url, playlist_name, playlist_description, playlist, i,
                      spotify_ids, failed_songs, final_name, final_description,
                      valid_track_ids, offset, sp_playlist, calls>>

\* the batch loop is over: create_playlist returns the URL, convert builds the
\* ConversionResult, logs it with its success_rate and returns it
ConvertReturn ==
    LET r == ConversionResult(PlaylistUrl, failed_songs, Len(playlist.songs),
                              Len(spotify_ids))
        created == <<Log("spotify", "INFO", "Playlist created succesfully")>>
    IN /\ pc = "add_items"
       /\ offset >= Len(valid_track_ids)
       /\ IF success_rate(r).zde
          THEN /\ Raise(Exc("ZeroDivisionError", "float division by zero"))
               /\ logs' = logs \o created \o ConvertErrorLog
          ELSE /\ pc' = "done"
               /\ status' = "returned"
               /\ result' = r
               /\ exc' = exc
               /\ logs' = logs \o created
                            \o <<Log("converter", "INFO", "Conversion completed")>>
       /\ UNCHANGED <<credentials, main_pc, echoed, exit_code, raw_tracks>>
       /\ UNCHANGED <<youtube_url, playlist_name, playlist_description, playlist, i,
                      spotify_ids, failed_songs, final_name, final_description,
                      valid_track_ids, offset, sp_playlist, calls>>

Next ==
    \/ Convert
    \/ GetPlaylist
    \/ SearchTrack
    \/ ConvertSongsDone
    \/ CreatePlaylist
    \/ CurrentUser
    \/ UserPlaylistCreate
    \/ PlaylistAddItems
    \/ ConvertReturn

Spec == Init /\ [][Next]_vars

-----------------------------------------------------------------------------
(* main.py: the command main around one call of convert *)

\* PlaylistConverter.get_conversion_summary: the summary text as the sequence
\* of its parts; formatting success_rate raises when its evaluation does
get_conversion_summary(r) ==
    IF success_rate(r).zde
    THEN [exc |-> Exc("ZeroDivisionError", "float division by zero"), text |-> <<>>]
    ELSE [exc |-> NoExc,
          text |-> <<"Conversion of playlist completed:", r.playlist_url,
                     r.total_songs, r.converted_songs, Len(r.failed_songs),
                     success_rate(r),
                     [k \in 1..Len(r.failed_songs) |-> r.failed_songs[k].title]>>]

\* SpotifyClient.__init__'s except clause: a SpotifyException leaves as
\* SpotifyClientError, anything else as it is
SpotifyClientExcept(e) ==
    IF e = "SpotifyException"
    THEN Exc("SpotifyClientError", "Failed initializing Spotify client")
    ELSE Exc(e, "spotipy")

\* what spotipy.Spotify(auth_manager=SpotifyOAuth(...)) and the first
\* sp.current_user() can do: with unusable credentials they raise
SpotifyInitOutcomes(c) ==
    IF c.spotify THEN {"ok"} \cup LibraryErrors
    ELSE {"SpotifyException", "SpotifyOauthError"}

\* url.startswith(prefix), for a prefix that is one token
StartsWith(url, prefix) == url.toks # <<>> /\ url.toks[1] = prefix

\* part in url, for a part that is one token
Contains(url, part) == \E k \in 1..Len(url.toks) : url.toks[k] = part

HttpUrl ==
    Str(<<"http://", "music.", "youtube.com", "/playlist\\", "?", "list\\", "=",
          "PL1">>)

OtherHostUrl ==
    Str(<<"https://", "example.com", "/playlist\\", "?", "list\\", "=", "PL1">>)

YoutubeBeUrl == Str(<<"https://", "youtube.be", "/PL1">>)

\* --name and --description: absent, or given with a value
NameOptions == {None, "My name"}

DescriptionOptions == {None, "My description"}

\* the YOUTUBE_URL argument is always a string
MainUrls == {EmptyUrl, BareUrl, ListUrl, BackslashUrl, HttpUrl, OtherHostUrl,
             YoutubeBeUrl}

\* click.echo(message, err=err); message is the sequence of its parts
Echo(message, err) == [message |-> message, err |-> err]

\* lines 55-59: the click.BadParameter main raises for its URL, if any
UrlParameterError(url) ==
    IF ~StartsWith(url, "https://")
    THEN Exc("BadParameter", "The URL must start with https://")
    ELSE IF ~Contains(url, "youtube.com") /\ ~Contains(url, "youtube.be")
    THEN Exc("BadParameter", "The URL must be from Youtube")
    ELSE NoExc

\* the handlers of main's outer try for exception e: what is echoed and
\* logged, and the status handed to sys.exit; exits zero instead of one
MainExcept_ExitZero(e) ==
    [echoed |-> <<Echo(<<"Critical error: ", e.msg>>, TRUE)>>,
     logs |-> <<Log("main", "ERROR", "Critical error")>>,
     code |-> 0]

\* the handlers of main's outer try for exception e: what is echoed and
\* logged, and the status handed to sys.exit
MainExcept(e) ==
    IF e.type = "BadParameter"
    THEN [echoed |-> <<Echo(<<"Invalid parameter: ", e.msg>>, TRUE)>>,
          logs |-> <<>>, code |-> 1]
    ELSE IF e.type = "KeyboardInterrupt"
    THEN [echoed |-> <<Echo(<<"\nProcess interrupted by user">>, TRUE)>>,
          logs |-> <<>>, code |-> 1]
    ELSE [echoed |-> <<Echo(<<"Critical error: ", e.msg>>, TRUE)>>,
          logs |-> <<Log("main", "ERROR", "Critical error")>>,
          code |-> 1]

\* the handlers of the try around converter.convert for exception e: the
\* second one calls click.error, which click does not have, so it leaves with
\* AttributeError for the outer handlers
MainConvertExcept(e) ==
    IF e.type = "PlaylistConverterError"
    THEN [echoed |-> <<Echo(<<"\nError during conversion: ", e.msg>>, TRUE)>>,
          logs |-> <<>>, code |-> 1]
    ELSE LET h == MainExcept(Exc("AttributeError",
                                 "module 'click' has no attribute 'error'"))
         IN [echoed |-> h.echoed,
             logs |-> <<Log("main", "ERROR", "Unexpected error")>> \o h.logs,
             code |-> h.code]

\* the state when main is entered
InitMain ==
    /\ pc = "idle"
    /\ youtube_url = NoneUrl
    /\ playlist_name = None
    /\ playlist_description = None
    /\ playlist = NoPlaylist
    /\ i = 0
    /\ spotify_ids = <<>>
    /\ failed_songs = <<>>
    /\ final_name = None
    /\ final_description = <<>>
    /\ valid_track_ids = <<>>
    /\ offset = 0
    /\ sp_playlist = NoSpPlaylist
    /\ calls = <<>>
    /\ logs = <<>>
    /\ status = "idle"
    /\ result = NoResult
    /\ exc = NoExc
    /\ credentials \in Credentials
    /\ raw_tracks = <<>>
    /\ main_pc = "start"
    /\ echoed = <<>>
    /\ exit_code = None

\* main is entered with its arguments: the two URL checks, then the banner
Main ==
    \E url \in MainUrls, name \in NameOptions, description \in DescriptionOptions :
        LET e == UrlParameterError(url)
            h == MainExcept(e)
        IN /\ main_pc = "start"
           /\ youtube_url' = url
           /\ playlist_name' = name
           /\ playlist_description' = description
           /\ IF e # NoExc
              THEN /\ echoed' = echoed \o h.echoed
                   /\ logs' = logs \o h.logs
                   /\ exit_code' = h.code
                   /\ main_pc' = "exited"
              ELSE /\ echoed' = echoed
                          \o <<Echo(<<"YouTube to Spotify Playlist Converter">>, FALSE),
                               Echo(<<"========">>, FALSE),
                               Echo(<<"Initializing clients...">>, FALSE)>>
                   /\ logs' = logs
                   /\ exit_code' = exit_code
                   /\ main_pc' = "clients"
           /\ UNCHANGED <<pc, playlist, i, spotify_ids, failed_songs, final_name,
                          final_description, valid_track_ids, offset, sp_playlist,
                          calls, status, result, exc, credentials, raw_tracks>>

\* YouTubeClient(), which only stores its arguments, then SpotifyClient(),
\* which authenticates, then PlaylistConverter(yt_client, spotify_client)
InitClients ==
    \E o \in SpotifyInitOutcomes(credentials) :
        LET e == SpotifyClientExcept(o)
        IN /\ main_pc = "clients"
           /\ calls' = Append(calls, Call("SpotifyClient", None, o))
           /\ IF o = "ok"
              THEN /\ main_pc' = "convert"
                   /\ UNCHANGED <<echoed, logs, exit_code>>
              ELSE /\ echoed' = Append(echoed, Echo(<<"Failed to initialize: ", e.msg>>, TRUE))
                   /\ logs' = Append(logs, Log("main", "ERROR", "Failed initializing clients"))
                   /\ exit_code' = 1
                   /\ main_pc' = "exited"
           /\ UNCHANGED <<pc, youtube_url, playlist_name, playlist_description,
                          playlist, i, spotify_ids, failed_songs, final_name,
                          final_description, valid_track_ids, offset, sp_playlist,
                          status, result, exc, credentials, raw_tracks>>

\* converter.convert(youtube_url, name, description) is called
MainConvert ==
    /\ main_pc = "convert"
    /\ ConvertCall(youtube_url, playlist_name, playlist_description)
    /\ main_pc' = "converting"
    /\ UNCHANGED <<echoed, exit_code>>

\* convert has returned or raised: the summary, or the handlers
MainReport ==
    LET completed == <<Echo(<<"\nConversion completed!">>, FALSE),
                       Echo(<<"========">>, FALSE),
                       Echo(<<"Detailed summary:">>, FALSE)>>
        summary == get_conversion_summary(result)
        h == IF status = "raised" THEN MainConvertExcept(exc)
             ELSE MainExcept(summary.exc)
    IN /\ main_pc = "converting"
       /\ pc = "done"
       /\ main_pc' = "exited"
       /\ IF status = "raised"
          THEN /\ echoed' = echoed \o h.echoed
               /\ logs' = logs \o h.logs
               /\ exit_code' = h.code
          ELSE IF summary.exc # NoExc
          THEN /\ echoed' = echoed \o completed \o h.echoed
               /\ logs' = logs \o h.logs
               /\ exit_code' = h.code
          ELSE /\ echoed' = echoed \o completed \o <<Echo(summary.text, FALSE)>>
               /\ logs' = logs
               /\ exit_code' = 0
       /\ UNCHANGED <<pc, youtube_url, playlist_name, playlist_description, playlist,
                      i, spotify_ids, failed_songs, final_name, final_description,
                      valid_track_ids, offset, sp_playlist, calls, status, result,
                      exc, credentials, raw_tracks>>

NextMain ==
    \/ Main
    \/ InitClients
    \/ MainConvert
    \/ GetPlaylist
    \/ SearchTrack
    \/ ConvertSongsDone
    \/ CreatePlaylist
    \/ CurrentUser
    \/ UserPlaylistCreate
    \/ PlaylistAddItems
    \/ ConvertReturn
    \/ MainReport

SpecMain == InitMain /\ [][NextMain]_vars

-----------------------------------------------------------------------------
(* The run on a long playlist, from the call of create_playlist on *)

RECURSIVE ConvertSongsFound(_, _, _)
\* _convert_songs on the songs at lo..hi, when every search returns a first item
ConvertSongsFound(songs, lo, hi) ==
    IF lo > hi
    THEN [ids |-> <<>>, calls |-> <<>>, logs |-> <<>>]
    ELSE IF lo = hi
    THEN LET r == ConvertSong(songs[lo], [kind |-> "items", val |-> TrackId(songs[lo])])
         IN [ids |-> r.ids, calls |-> r.calls, logs |-> r.logs]
    ELSE LET mid == (lo + hi) \div 2
             a == ConvertSongsFound(songs, lo, mid)
             b == ConvertSongsFound(songs, mid + 1, hi)
         IN [ids |-> a.ids \o b.ids, calls |-> a.calls \o b.calls,
             logs |-> a.logs \o b.logs]

\* The state convert is in when it calls create_playlist for a playlist of m
\* songs, m <= MaxIds, every one of which was found.
InitBatch ==
    \E m \in 1..MaxIds :
        LET resp == [raises |-> FALSE,
                     meta |-> [title |-> "YT name", description |-> "YT desc"],
                     tracks |-> [k \in 1..m |-> TrackWithArtist]]
            g == get_playlist(BackslashUrl, [creds |-> TRUE, resp |-> resp])
            c == ConvertSongsFound(g.playlist.songs, 1, m)
        IN /\ pc = "create_playlist"
           /\ youtube_url = BackslashUrl
           /\ playlist_name = None
           /\ playlist_description = None
           /\ playlist = g.playlist
           /\ i = m + 1
           /\ spotify_ids = c.ids
           /\ failed_songs = <<>>
           /\ final_name = FinalName(None, g.playlist)
           /\ final_description = FinalDescription(None, g.playlist, <<>>)
           /\ valid_track_ids = <<>>
           /\ offset = 0
           /\ sp_playlist = NoSpPlaylist
           /\ calls = g.calls \o c.calls
           /\ logs = <<Log("converter", "INFO", "Obtaining YouTube playlist")>>
                     \o g.logs
                     \o <<Log("converter", "INFO", "Found songs in playlist")>>
                     \o c.logs
                     \o <<Log("converter", "INFO", "Creating Spotify playlist")>>
           /\ status = "running"
           /\ result = NoResult
           /\ exc = NoExc
           /\ credentials = [youtube |-> TRUE, spotify |-> TRUE]
           /\ raw_tracks = g.raw_tracks
           /\ main_pc = "none"
           /\ echoed = <<>>
           /\ exit_code = None

NextBatch ==
    \/ CreatePlaylist
    \/ CurrentUser
    \/ UserPlaylistCreate
    \/ PlaylistAddItems
    \/ ConvertReturn

SpecBatch == InitBatch /\ [][NextBatch]_vars

-----------------------------------------------------------------------------
(* What a run shows from outside: the calls it issued *)

OpCalls(op) == SelectSeq(calls, LAMBDA c : c.op = op)

SearchCalls == OpCalls("sp.search")

AttachCalls == OpCalls("sp.playlist_add_items")

\* the calls that reach the destination catalogue
DestinationOps ==
    {"sp.search", "spotify.create_playlist", "sp.current_user",
     "sp.user_playlist_create", "sp.playlist_add_items"}

\* the calls that write to the destination catalogue
WriteOps == {"sp.user_playlist_create", "sp.playlist_add_items"}

NoCallOf(ops) == \A k \in 1..Len(calls) : calls[k].op \notin ops

Count(seq, x) == Cardinality({k \in 1..Len(seq) : seq[k] = x})

\* ytmusic.get_playlist answered with a playlist
Fetched ==
    \E k \in 1..Len(calls) :
        calls[k].op = "ytmusic.get_playlist" /\ calls[k].ret = "playlist"

SomeSearch(kind) ==
    \E k \in 1..Len(SearchCalls) : SearchCalls[k].ret.kind = kind

\* the calls that leave the machine: the source platform and the destination
NetworkOps == {"ytmusic.get_playlist"} \cup DestinationOps

\* the library calls of the run other than the per-track search
LibraryOps ==
    {"ytmusic.get_playlist", "sp.current_user", "sp.user_playlist_create",
     "sp.playlist_add_items"}

\* the library calls other than a search that raised
FailedLibraryCalls ==
    {k \in 1..Len(calls) :
        /\ calls[k].op \in LibraryOps
        /\ calls[k].ret \in {"raise"} \cup LibraryErrors}

\* the URL has a query field list=<id>, as urlparse and parse_qs read it
HasListParameter(url) == QsValues(UrlQuery(url.toks), "list") # <<>>

\* the URL has no query at all
HasNoQuery(url) == UrlQuery(url.toks) = <<>>

\* main printed the conversion summary
SummaryEchoed ==
    \E k \in 1..Len(echoed) :
        echoed[k].message[1] = "Conversion of playlist completed:"

\* main printed a message on the error stream
ErrorEchoed == \E k \in 1..Len(echoed) : echoed[k].err

\* the positions, in increasing order, of the searches issued so far whose
\* outcome was found (an item came back) or was not
SearchPositions(found) ==
    SelectSeq([k \in 1..Len(SearchCalls) |-> k],
              LAMBDA k : (SearchCalls[k].ret.kind = "items") = found)

\* how many searches issued so far had the outcome kind
SearchCount(kind) ==
    Cardinality({k \in 1..Len(SearchCalls) : SearchCalls[k].ret.kind = kind})

\* the songs whose search had the outcome kind are all in failed_songs
AllFailed(kind) ==
    \A k \in 1..Len(SearchCalls) :
        SearchCalls[k].ret.kind = kind => Count(failed_songs, playlist.songs[k]) = 1

\* _convert_songs logged "Not found" at level absent once per song whose search
\* returned nothing and "Error searching" at level error once per song whose
\* search raised, and at no other level
UnresolvedLoggedAt(absent, error) ==
    /\ \A k \in 1..Len(logs) :
           /\ (logs[k].logger = "converter" /\ logs[k].msg = "Not found")
                  => logs[k].level = absent
           /\ (logs[k].logger = "converter" /\ logs[k].msg = "Error searching")
                  => logs[k].level = error
    /\ Count(logs, Log("converter", absent, "Not found")) = SearchCount("empty")
    /\ Count(logs, Log("converter", error, "Error searching")) = SearchCount("raise")

\* a raw listing entry that is no dict, or whose artists list holds an entry
\* that is no dict
Malformed(track) ==
    \/ ~track.isDict
    \/ /\ "artists" \in DOMAIN track.d
       /\ \E k \in 1..Len(track.d.artists) : ~track.d.artists[k].isDict

\* the positions of the raw listing whose entry is malformed
MalformedPositions == {k \in 1..Len(raw_tracks) : Malformed(raw_tracks[k])}

\* the raw entry at position k became a Song of the playlist
Translated(k) == \E j \in 1..Len(playlist.songs) : playlist.songs[j].oid = k

\* the raw entry at position k ended as a resolved identifier or in failed_songs
Accounted(k) ==
    \/ \E j \in 1..Len(spotify_ids) : spotify_ids[j] = "sp" \o ToString(k)
    \/ \E j \in 1..Len(failed_songs) : failed_songs[j].oid = k

RECURSIVE ConcatArgs(_)
\* the arguments of a sequence of calls, concatenated in call order
ConcatArgs(cs) ==
    IF cs = <<>> THEN <<>> ELSE Head(cs).arg \o ConcatArgs(Tail(cs))

-----------------------------------------------------------------------------
(* Claims *)

\* C1: in every ConversionResult convert returns, converted_songs +
\* len(failed_songs) = total_songs, and every song of the fetched playlist is
\* accounted for exactly once: it was searched once and either its identifier
\* is in the resolved list once (its search returned an item) or the song is in
\* failed_songs once (its search returned nothing or raised), never both,
\* never neither.
C1_Accounting ==
    status = "returned" =>
        /\ result.converted_songs + Len(result.failed_songs) = result.total_songs
        /\ result.total_songs = Len(playlist.songs)
        /\ result.converted_songs = Len(spotify_ids)
        /\ Len(SearchCalls) = Len(playlist.songs)
        /\ \A k \in 1..Len(playlist.songs) :
               LET s == playlist.songs[k]
                   found == SearchCalls[k].ret.kind = "items"
               IN /\ Count(spotify_ids, TrackId(s)) = (IF found THEN 1 ELSE 0)
                  /\ Count(result.failed_songs, s) = (IF found THEN 0 ELSE 1)

\* C1's case: a result for a playlist of which one song was found and one
\* song's search raised
C1_Witness ==
    /\ status = "returned"
    /\ result.converted_songs = 1
    /\ Len(result.failed_songs) = 1
    /\ SomeSearch("raise")

\* C2: when search_track raises for the song at position k, the song is then
\* in failed_songs exactly once, every later song is still searched (once the
\* loop is left, there is one search per song), and if some song resolved,
\* convert raises only because a later destination write call raised.
C2_SearchErrorAbsorbed ==
    \A k \in 1..Len(SearchCalls) :
        SearchCalls[k].ret.kind = "raise" =>
            /\ Count(failed_songs, playlist.songs[k]) = 1
            /\ pc # "search" => Len(SearchCalls) = Len(playlist.songs)
            /\ (status = "raised" /\ spotify_ids # <<>>) =>
                   /\ calls[Len(calls)].op \in WriteOps \cup {"sp.current_user"}
                   /\ calls[Len(calls)].ret \in LibraryErrors

\* C2's case: the first song's search raised, the second song was still
\* searched and found, and convert returned a result
C2_Witness ==
    /\ status = "returned"
    /\ Len(SearchCalls) = 2
    /\ SearchCalls[1].ret.kind = "raise"
    /\ SearchCalls[2].ret.kind = "items"
    /\ Count(result.failed_songs, playlist.songs[1]) = 1

\* C3: when the fetched playlist has no song, convert raises
\* PlaylistConverterError("Youtube playlist is empty") and the run issues no
\* destination call: no search, no create_playlist, no attach.
C3_EmptyPlaylist ==
    (Fetched /\ pc # "get_playlist" /\ playlist.songs = <<>>) =>
        /\ pc = "done"
        /\ status = "raised"
        /\ exc = Exc("PlaylistConverterError", "Youtube playlist is empty")
        /\ NoCallOf(DestinationOps)
        /\ ~sp_playlist.exists

\* C3's case: the source answered with a playlist without songs and convert
\* has raised
C3_Witness ==
    /\ Fetched
    /\ playlist.songs = <<>>
    /\ status = "raised"

\* C4: when the playlist has songs and no search returned an item, convert
\* raises PlaylistConverterError("Could not find any song on Spotify") after
\* one search per song, and neither create_playlist nor any attach is issued.
C4_NoMatches ==
    (pc \notin {"get_playlist", "search"} /\ Fetched /\ playlist.songs # <<>>
        /\ ~SomeSearch("items")) =>
        /\ pc = "done"
        /\ status = "raised"
        /\ exc = Exc("PlaylistConverterError", "Could not find any song on Spotify")
        /\ Len(SearchCalls) = Len(playlist.songs)
        /\ NoCallOf(DestinationOps \ {"sp.search"})
        /\ ~sp_playlist.exists

\* C4's case: two songs, one search returned nothing and the other raised, and
\* convert has raised
C4_Witness ==
    /\ status = "raised"
    /\ Len(playlist.songs) = 2
    /\ Len(SearchCalls) = 2
    /\ SomeSearch("empty")
    /\ SomeSearch("raise")

\* C5: when create_playlist completes for M >= 1 identifiers, it has issued
\* ceil(M/100) attach calls, each but the last of 100 identifiers, the last of
\* M - 100*(ceil(M/100) - 1), and the batches concatenated in call order are
\* the identifier sequence, which is what the playlist then holds.
C5_Batching ==
    status = "returned" =>
        LET M == Len(spotify_ids)
            n == (M + 99) \div 100
        IN /\ M >= 1
           /\ Len(AttachCalls) = n
           /\ \A k \in 1..(n - 1) : Len(AttachCalls[k].arg) = 100
           /\ Len(AttachCalls[n].arg) = M - 100 * (n - 1)
           /\ ConcatArgs(AttachCalls) = spotify_ids
           /\ sp_playlist.items = spotify_ids

\* C5's case: 150 identifiers, attached by two calls of 100 and 50
C5_Witness ==
    /\ status = "returned"
    /\ Len(spotify_ids) = 150
    /\ Len(AttachCalls) = 2
    /\ Len(AttachCalls[1].arg) = 100
    /\ Len(AttachCalls[2].arg) = 50

\* C6: when the attach call for batch k raises, it is the last call of the
\* run (no later attach, no delete or rollback), the created playlist still
\* holds batches 1..k-1, and convert raises PlaylistConverterError and returns
\* no ConversionResult.
C6_AttachFailure ==
    \A k \in 1..Len(AttachCalls) :
        AttachCalls[k].ret # "ok" =>
            /\ k = Len(AttachCalls)
            /\ calls[Len(calls)].op = "sp.playlist_add_items"
            /\ sp_playlist.exists
            /\ sp_playlist.items = SubSeq(spotify_ids, 1, 100 * (k - 1))
            /\ pc = "done"
            /\ status = "raised"
            /\ exc.type = "PlaylistConverterError"
            /\ result = NoResult

\* C7: success_rate of a returned ConversionResult is 0 when total_songs = 0
\* and converted_songs / total_songs * 100 otherwise.
C7_SuccessRate ==
    status = "returned" =>
        RateEq(success_rate(result),
               IF result.total_songs = 0 THEN Rate(0, 1)
               ELSE Rate(result.converted_songs * 100, result.total_songs))

\* C8: the name handed to the playlist-create call is the override when one
\* is given (non-empty), else the source playlist's name when it has one, else
\* "Playlist from Youtube"; the description is chosen the same way from the
\* description override and the source description, with a fallback that
\* states len(failed_songs); neither choice reads the other field.
C8_NameDescriptionPrecedence ==
    \A k \in 1..Len(calls) :
        calls[k].op = "sp.user_playlist_create" =>
            /\ calls[k].arg.name =
                   (IF playlist_name \notin {None, ""} THEN playlist_name
                    ELSE IF playlist.name \notin {None, ""} THEN playlist.name
                    ELSE "Playlist from Youtube")
            /\ calls[k].arg.description =
                   (IF playlist_description \notin {None, ""}
                    THEN <<playlist_description>>
                    ELSE IF playlist.description \notin {None, ""}
                    THEN <<playlist.description>>
                    ELSE <<"Playlist converted from Youtube. ", Len(failed_songs),
                           " songs not found.">>)

\* C8's case: the name comes from the override while the description, with no
\* override and no source description, is the fallback stating one song not
\* found
C8_Witness ==
    \E k \in 1..Len(calls) :
        /\ calls[k].op = "sp.user_playlist_create"
        /\ playlist_name = "My name"
        /\ playlist.name = "YT name"
        /\ calls[k].arg.name = "My name"
        /\ playlist_description = None
        /\ playlist.description = None
        /\ Len(failed_songs) = 1
        /\ calls[k].arg.description[2] = 1

\* C9: the query search_track sends for a song with at least one artist is
\* the title followed by the artist hint; only for a song without artist is it
\* the bare title.
C9_ArtistHint ==
    \A k \in 1..Len(SearchCalls) :
        LET s == playlist.songs[k]
            q == SearchCalls[k].arg
        IN IF s.artists # <<>>
           THEN Len(q) = 3 /\ q[1] = s.title /\ q[2] = " artist:"
           ELSE q = <<s.title>>

\* C10: convert called with an empty or non-string locator raises ValueError
\* at once and issues no call: no source fetch, no search, no create, no attach.
C10_InvalidLocator ==
    (status # "idle" /\ (~youtube_url.isStr \/ youtube_url.toks = <<>>)) =>
        /\ pc = "done"
        /\ status = "raised"
        /\ exc.type = "ValueError"
        /\ calls = <<>>
        /\ ~sp_playlist.exists

\* C10's case: convert was called with the empty string and has raised
C10_Witness ==
    /\ status = "raised"
    /\ youtube_url = EmptyUrl
    /\ exc.type = "ValueError"

\* C11: convert called with a non-empty string locator from which no playlist
\* id can be extracted (it has no query) raises ValueError, not
\* PlaylistConverterError, and the run issues no network call to either
\* platform; a locator with a list=<id> parameter is not rejected as
\* malformed: with usable source credentials the fetch is issued for it.
C11_MalformedLocator ==
    (pc = "done" /\ youtube_url.isStr /\ youtube_url.toks # <<>>) =>
        /\ HasNoQuery(youtube_url) =>
               /\ status = "raised"
               /\ exc.type = "ValueError"
               /\ NoCallOf(NetworkOps)
        /\ (HasListParameter(youtube_url) /\ credentials.youtube) =>
               ~NoCallOf({"ytmusic.get_playlist"})

\* C12: convert ends by returning a ConversionResult or by raising ValueError
\* or PlaylistConverterError, and whenever a library call other than a search
\* raised (the source fetch, current_user, the playlist creation, an attach),
\* whatever the exception's type, convert raises PlaylistConverterError and
\* returns no result.
C12_CollaboratorFailure ==
    /\ pc = "done" =>
           \/ status = "returned" /\ exc = NoExc
           \/ /\ status = "raised"
              /\ exc.type \in {"ValueError", "PlaylistConverterError"}
              /\ result = NoResult
    /\ FailedLibraryCalls # {} =>
           /\ pc = "done"
           /\ status = "raised"
           /\ exc.type = "PlaylistConverterError"
           /\ result = NoResult

\* C13: in every run of main the conversion summary is printed only if convert
\* returned a result; when main ends without a result (the URL check, the
\* client initialisation or convert failed, with PlaylistConverterError or any
\* other exception) it has printed an error message, printed no summary, and
\* exits with a nonzero status.
C13_SummaryOnlyOnSuccess ==
    /\ SummaryEchoed => (main_pc = "exited" /\ status = "returned")
    /\ (main_pc = "exited" /\ status # "returned") =>
           /\ exit_code # 0
           /\ ErrorEchoed
           /\ ~SummaryEchoed

\* C13's case: convert raised an exception that is no PlaylistConverterError
\* (a ValueError), and main has ended with status 1 and an error message
C13_Witness ==
    /\ main_pc = "exited"
    /\ status = "raised"
    /\ exc.type = "ValueError"
    /\ exit_code = 1
    /\ ErrorEchoed
    /\ ~SummaryEchoed

\* C14: when the credentials of the source client or of the destination
\* client are unusable, main fails before it calls convert: convert is never
\* entered, and no search and no playlist-create call is issued.
C14_InitBeforeConvert ==
    (~credentials.youtube \/ ~credentials.spotify) =>
        /\ main_pc \notin {"convert", "converting"}
        /\ status = "idle"
        /\ NoCallOf({"sp.search", "spotify.create_playlist", "sp.user_playlist_create"})

\* C15: in a run of convert that returns a result for a playlist of N songs
\* the calls are, in this order: one source fetch (get_playlist and the one
\* ytmusic.get_playlist inside it), then N search_track calls, the k-th for
\* the k-th song and each with one sp.search, then one create_playlist call
\* (current_user and user_playlist_create inside it), then the attach calls
\* and nothing else: no search after the create, no attach before it.
C15_CallOrder ==
    status = "returned" =>
        LET N == Len(playlist.songs)
            M == Len(AttachCalls)
        IN /\ M >= 1
           /\ Len(calls) = 2 + 2 * N + 3 + M
           /\ calls[1].op = "yt.get_playlist"
           /\ calls[2].op = "ytmusic.get_playlist"
           /\ \A k \in 1..N :
                  /\ calls[2 * k + 1].op = "spotify.search_track"
                  /\ calls[2 * k + 1].arg = playlist.songs[k]
                  /\ calls[2 * k + 2].op = "sp.search"
           /\ calls[2 * N + 3].op = "spotify.create_playlist"
           /\ calls[2 * N + 4].op = "sp.current_user"
           /\ calls[2 * N + 5].op = "sp.user_playlist_create"
           /\ \A k \in (2 * N + 6)..Len(calls) : calls[k].op = "sp.playlist_add_items"

\* C15's case: a result for a playlist of two songs, the first not found, the
\* second found
C15_Witness ==
    /\ status = "returned"
    /\ Len(playlist.songs) = 2
    /\ Len(SearchCalls) = 2
    /\ SearchCalls[1].ret.kind = "empty"
    /\ SearchCalls[2].ret.kind = "items"
    /\ Len(AttachCalls) = 1

\* C16: at every point of a run the identifiers found so far are those of the
\* resolved songs in the order these songs have in the source playlist, and
\* failed_songs holds the unresolved Song objects in source order; the
\* identifier sequence handed to create_playlist and attached to the
\* destination playlist is that sequence (a prefix of it while attaching).
C16_OrderPreserved ==
    LET hit == SearchPositions(TRUE)
        miss == SearchPositions(FALSE)
    IN /\ spotify_ids = [j \in 1..Len(hit) |-> TrackId(playlist.songs[hit[j]])]
       /\ failed_songs = [j \in 1..Len(miss) |-> playlist.songs[miss[j]]]
       /\ \A k \in 1..Len(calls) :
              calls[k].op = "spotify.create_playlist" =>
                  calls[k].arg.track_ids = spotify_ids
       /\ sp_playlist.items = SubSeq(spotify_ids, 1, Len(sp_playlist.items))
       /\ status = "returned" =>
              /\ sp_playlist.items = spotify_ids
              /\ result.failed_songs = failed_songs

\* C16's case: both songs of a playlist were found and their identifiers are
\* on the destination playlist, the first song's first
C16_Witness ==
    /\ status = "returned"
    /\ Len(playlist.songs) = 2
    /\ sp_playlist.items = <<TrackId(playlist.songs[1]), TrackId(playlist.songs[2])>>

\* C17: the pipeline records the two kinds of unresolved outcome with
\* different severities: a song whose search returned nothing is logged at
\* informational level, a song whose search raised at warning level; both
\* are placed in failed_songs.
C17_SeveritiesAsClaimed ==
    /\ UnresolvedLoggedAt("INFO", "WARNING")
    /\ AllFailed("empty")
    /\ AllFailed("raise")

\* C17, amended: a song whose search returned nothing is logged at warning
\* level, a song whose search raised at error level; both are placed in
\* failed_songs.
C17_Severities ==
    /\ UnresolvedLoggedAt("WARNING", "ERROR")
    /\ AllFailed("empty")
    /\ AllFailed("raise")

\* C17's case: one song's search returned nothing and was logged with a
\* warning, the other's raised and was logged as an error
C17_Witness ==
    /\ SearchCount("empty") = 1
    /\ SearchCount("raise") = 1
    /\ Count(logs, Log("converter", "WARNING", "Not found")) = 1
    /\ Count(logs, Log("converter", "ERROR", "Error searching")) = 1
    /\ Len(failed_songs) = 2

\* C18: no source track is dropped: in every result, every entry of the raw
\* listing the source returned, a malformed one included, is counted in
\* total_songs and is a resolved identifier or an entry of failed_songs.
C18_NoTrackDropped ==
    status = "returned" =>
        /\ result.total_songs = Len(raw_tracks)
        /\ \A k \in 1..Len(raw_tracks) : Accounted(k)

\* C18, amended: every entry of the raw listing that translates into a Song
\* is counted in total_songs and is a resolved identifier or an entry of
\* failed_songs; an entry that is no dict or fails to translate is skipped
\* with a warning and is counted nowhere, so total_songs is the length of the
\* listing less the malformed entries.
C18_TranslatedTracksAccounted ==
    status = "returned" =>
        /\ result.total_songs = Len(raw_tracks) - Cardinality(MalformedPositions)
        /\ \A k \in 1..Len(raw_tracks) :
               IF Malformed(raw_tracks[k])
               THEN ~Translated(k) /\ ~Accounted(k)
               ELSE Translated(k) /\ Accounted(k)
        /\ Count(logs, Log("youtube", "WARNING", "Could not process track"))
               = Cardinality(MalformedPositions)

\* C18's case: a result for a listing of two entries of which the first is
\* no dict: total_songs is 1
C18_Witness ==
    /\ status = "returned"
    /\ Len(raw_tracks) = 2
    /\ ~raw_tracks[1].isDict
    /\ result.total_songs = 1
    /\ result.converted_songs = 1

\* C19: every ConversionResult convert constructs has 1 <= converted_songs <=
\* total_songs, and its playlist_url is the URL of a playlist that was created
\* and to which every attach call completed, holding all the identifiers;
\* hence success_rate does not divide by zero, neither in convert's completion
\* log line nor in get_conversion_summary, and main prints the summary.
C19_ResultWellFormed ==
    status = "returned" =>
        /\ 1 <= result.converted_songs
        /\ result.converted_songs <= result.total_songs
        /\ result.playlist_url = PlaylistUrl
        /\ sp_playlist.exists
        /\ \A k \in 1..Len(calls) :
               calls[k].op \in WriteOps \cup {"sp.current_user"} => calls[k].ret = "ok"
        /\ Len(OpCalls("sp.user_playlist_create")) = 1
        /\ Len(sp_playlist.items) = result.converted_songs
        /\ ConcatArgs(AttachCalls) = sp_playlist.items
        /\ ~success_rate(result).zde
        /\ get_conversion_summary(result).exc = NoExc
        /\ main_pc = "exited" => (SummaryEchoed /\ exit_code = 0)

\* C19's case: main has printed the summary of a result with one song
\* converted out of two
C19_Witness ==
    /\ status = "returned"
    /\ main_pc = "exited"
    /\ result.converted_songs = 1
    /\ result.total_songs = 2
    /\ SummaryEchoed

====
